---- MODULE Spec2Model ----
(***************************************************************************)
(* The periodic-task scheduling controller of uxi_celery_scheduler         *)
(* (controller.py): schedule_task, update_task_enabled_status,             *)
(* update_task and delete_task working on the crontab schedule table and   *)
(* the periodic task table through one SQLAlchemy session.                 *)
(*                                                                         *)
(* The state is the content of the two tables as the session sees it.     *)
(* The session autoflushes before every query the controller issues, so a *)
(* pending addition or removal is visible to the next query; a row gets   *)
(* its primary key from the store when it is flushed.                      *)
(***************************************************************************)
EXTENDS Integers, Sequences, FiniteSets, TLC

\* Bounds of the model: how many task rows and schedule rows the store hands
\* a primary key to in one behaviour.
MaxTasks == 2
MaxCrontabs == 3
\* How many calls each of the concurrent callers issues.
MaxCalls == 2
\* How many sections the configuration of the version tool holds at most.
MaxSections == 2

----------------------------------------------------------------------------
\* Inputs

\* data_models.Schedule: the six cron fields a caller supplies.
Schedule(minute, hour, day_of_week, day_of_month, month_of_year, timezone) ==
    [minute |-> minute, hour |-> hour, day_of_week |-> day_of_week,
     day_of_month |-> day_of_month, month_of_year |-> month_of_year,
     timezone |-> timezone]

\* Two schedules that differ in one field only.
Schedules ==
    { Schedule("0", "*", "1-5", "*", "*", "UTC"),
      Schedule("0", "*", "1-5", "*", "*", "Europe/Berlin") }

\* data_models.ScheduledTask: name, task reference and a Schedule.
ScheduledTask(name, task, schedule) ==
    [name |-> name, task |-> task, schedule |-> schedule]

NameTasks == { <<"A", "jobs.ping">>, <<"B", "jobs.sync">> }

ScheduledTasks ==
    { ScheduledTask(nt[1], nt[2], s) : nt \in NameTasks, s \in Schedules }

\* The **kwargs of schedule_task, as a sequence of <<key, value>> pairs.
KwargsInputs == { << <<"site", "1">> >> }

\* Task identifiers a caller may pass.
TaskIds == 1 .. MaxTasks

----------------------------------------------------------------------------
\* Python values

None == [none |-> TRUE]

RECURSIVE json_items(_)
json_items(kw) ==
    IF kw = <<>> THEN ""
    ELSE "\"" \o kw[1][1] \o "\": \"" \o kw[1][2] \o "\""
         \o (IF Len(kw) > 1 THEN ", " ELSE "") \o json_items(Tail(kw))

\* json.dumps of a dict of strings.
json_dumps(kw) == "{" \o json_items(kw) \o "}"

----------------------------------------------------------------------------
\* The store

VARIABLES
    tasks,          \* the periodic task table: a set of rows
    crontabs,       \* the crontab schedule table: a set of rows
    nextTaskId,     \* the next primary key of the periodic task table
    nextCrontabId,  \* the next primary key of the crontab schedule table
    lastOp,         \* history: the last call and its outcome
    intent,         \* history: task id -> Schedule of its last successful
                    \*          schedule_task / update_task
    created,        \* history: ids returned by schedule_task
    deleted,        \* history: ids passed to a successful delete_task
    sessions,       \* concurrent callers: the unit of work of each
    fk,             \* whether the store enforces the task -> schedule
                    \* foreign key
    tool            \* the version tool: its position in main, its
                    \* configuration, the repository and what it reported

vars == <<tasks, crontabs, nextTaskId, nextCrontabId, lastOp, intent,
          created, deleted, sessions, fk, tool>>

\* The six fields of a crontab schedule row.
Fields(c) == Schedule(c.minute, c.hour, c.day_of_week, c.day_of_month,
                      c.month_of_year, c.timezone)

\* CrontabSchedule(**schedule.dict()): a transient object; it has no primary
\* key (id 0) until it is flushed.
CrontabSchedule(schedule) ==
    [id |-> 0, minute |-> schedule.minute, hour |-> schedule.hour,
     day_of_week |-> schedule.day_of_week,
     day_of_month |-> schedule.day_of_month,
     month_of_year |-> schedule.month_of_year,
     timezone |-> schedule.timezone]

\* PeriodicTask(crontab=..., name=..., task=..., kwargs=...): enabled takes
\* the column default.
PeriodicTask(id, crontab, name, task, kwargs, enabled) ==
    [id |-> id, crontab |-> crontab.id, name |-> name, task |-> task,
     kwargs |-> kwargs, enabled |-> enabled]

\* Mutant: first() instead of one_or_none(): any matching row will do.
one_or_none_first(rows) ==
    IF rows = {} THEN [err |-> "ok", row |-> None]
    ELSE [err |-> "ok", row |-> CHOOSE r \in rows : TRUE]

\* Query.one_or_none() on the rows a filter selected.
one_or_none(rows) ==
    IF Cardinality(rows) > 1 THEN [err |-> "MultipleResultsFound", row |-> None]
    ELSE IF rows = {} THEN [err |-> "ok", row |-> None]
    ELSE [err |-> "ok", row |-> CHOOSE r \in rows : TRUE]

\* session.query(PeriodicTask).get(id): the row, or None when there is none.
\* It never raises NoResultFound.
QueryGet(ts, periodic_task_id) ==
    LET found == {t \in ts : t.id = periodic_task_id}
    IN  IF found = {} THEN None ELSE CHOOSE t \in found : TRUE

\* Mutant: the task is added without its new schedule (no cascade).
SaveCrontab_no_cascade(cs, nextId, crontab) ==
    IF crontab.id = 0
    THEN [crontab |-> [crontab EXCEPT !.id = nextId], crontabs |-> cs,
          nextId |-> nextId + 1]
    ELSE [crontab |-> crontab, crontabs |-> cs, nextId |-> nextId]

\* The cascade of session.add(task) / task.crontab = ...: a transient
\* crontab becomes a row with the next primary key; a persistent one stays.
SaveCrontab(cs, nextId, crontab) ==
    IF crontab.id = 0
    THEN LET row == [crontab EXCEPT !.id = nextId]
         IN  [crontab |-> row, crontabs |-> cs \cup {row}, nextId |-> nextId + 1]
    ELSE [crontab |-> crontab, crontabs |-> cs, nextId |-> nextId]

\* except NoResultFound as e: raise PeriodicTaskNotFound() from e
\* Every other exception propagates unchanged.
ExceptNoResultFound(err) ==
    IF err = "NoResultFound" THEN "PeriodicTaskNotFound" ELSE err

----------------------------------------------------------------------------
\* The controller

\* Mutant: the filter leaves the timezone out.
CrontabFilter_no_timezone(c, schedule) ==
    /\ c.minute = schedule.minute
    /\ c.hour = schedule.hour
    /\ c.day_of_week = schedule.day_of_week
    /\ c.day_of_month = schedule.day_of_month
    /\ c.month_of_year = schedule.month_of_year

\* The filter of get_crontab_schedule: exact match on all six fields.
CrontabFilter(c, schedule) ==
    /\ c.minute = schedule.minute
    /\ c.hour = schedule.hour
    /\ c.day_of_week = schedule.day_of_week
    /\ c.day_of_month = schedule.day_of_month
    /\ c.month_of_year = schedule.month_of_year
    /\ c.timezone = schedule.timezone

\* Mutant: get-or-create, a schedule that is not found is inserted at once.
get_crontab_schedule_inserts(cs, schedule) ==
    LET q == one_or_none({c \in cs : CrontabFilter(c, schedule)})
    IN  IF q.err # "ok" THEN [err |-> q.err, crontab |-> None]
        ELSE IF q.row # None THEN [err |-> "ok", crontab |-> q.row]
        ELSE [err |-> "ok",
              crontab |-> [CrontabSchedule(schedule) EXCEPT
                              !.id = 1 + Cardinality(cs)]]

\* Mutant: no lookup, every call builds a new schedule.
get_crontab_schedule_no_lookup(cs, schedule) ==
    [err |-> "ok", crontab |-> CrontabSchedule(schedule)]

get_crontab_schedule(cs, schedule) ==
    LET q == one_or_none({c \in cs : CrontabFilter(c, schedule)})
    IN  IF q.err # "ok" THEN [err |-> q.err, crontab |-> None]
        ELSE IF q.row # None THEN [err |-> "ok", crontab |-> q.row]
        ELSE [err |-> "ok", crontab |-> CrontabSchedule(schedule)]

\* The outcome of a call: the error raised ("ok" for none), the returned
\* task and the store after the call.
Outcome(err, task, ts, cs, nextCid) ==
    [err |-> err, task |-> task, tasks |-> ts, crontabs |-> cs,
     nextCrontabId |-> nextCid]

schedule_task(ts, cs, nextTid, nextCid, scheduled_task, kwargs, enabled) ==
    LET r == get_crontab_schedule(cs, scheduled_task.schedule)
    IN  IF r.err # "ok" THEN Outcome(r.err, None, ts, cs, nextCid)
        ELSE LET saved == SaveCrontab(cs, nextCid, r.crontab)
                 task == PeriodicTask(nextTid, saved.crontab,
                                      scheduled_task.name, scheduled_task.task,
                                      json_dumps(kwargs), enabled)
             IN  Outcome("ok", task, ts \cup {task}, saved.crontabs, saved.nextId)

\* Mutant: the flag is flipped instead of set.
update_task_enabled_status_flip(ts, cs, nextCid, enabled_status, periodic_task_id) ==
    LET task == QueryGet(ts, periodic_task_id)
    IN  IF task = None
        THEN Outcome("AttributeError", None, ts, cs, nextCid)
        ELSE LET new == [task EXCEPT !.enabled = ~task.enabled]
             IN  Outcome("ok", new, (ts \ {task}) \cup {new}, cs, nextCid)

update_task_enabled_status(ts, cs, nextCid, enabled_status, periodic_task_id) ==
    LET task == QueryGet(ts, periodic_task_id)
    IN  IF task = None
        THEN \* task.enabled = ... on None
             Outcome(ExceptNoResultFound("AttributeError"), None, ts, cs, nextCid)
        ELSE LET new == [task EXCEPT !.enabled = enabled_status]
             IN  Outcome("ok", new, (ts \ {task}) \cup {new}, cs, nextCid)

\* Mutant: the task is rebuilt from the request, its kwargs start empty.
update_task_resets_kwargs(ts, cs, nextCid, scheduled_task, periodic_task_id) ==
    LET task == QueryGet(ts, periodic_task_id)
        r == get_crontab_schedule(cs, scheduled_task.schedule)
    IN  IF r.err # "ok" \/ task = None
        THEN Outcome("AttributeError", None, ts, cs, nextCid)
        ELSE LET saved == SaveCrontab(cs, nextCid, r.crontab)
                 new == [task EXCEPT !.crontab = saved.crontab.id,
                                     !.name = scheduled_task.name,
                                     !.task = scheduled_task.task,
                                     !.kwargs = "{}"]
             IN  Outcome("ok", new, (ts \ {task}) \cup {new}, saved.crontabs,
                         saved.nextId)

\* Mutant: the resolved schedule is added to the session before the task is
\* looked at.
update_task_adds_crontab_first(ts, cs, nextCid, scheduled_task, periodic_task_id) ==
    LET task == QueryGet(ts, periodic_task_id)
        r == get_crontab_schedule(cs, scheduled_task.schedule)
    IN  IF r.err # "ok"
        THEN Outcome(r.err, None, ts, cs, nextCid)
        ELSE LET saved == SaveCrontab(cs, nextCid, r.crontab)
             IN  IF task = None
                 THEN Outcome("AttributeError", None, ts, saved.crontabs,
                              saved.nextId)
                 ELSE LET new == [task EXCEPT !.crontab = saved.crontab.id,
                                              !.name = scheduled_task.name,
                                              !.task = scheduled_task.task]
                      IN  Outcome("ok", new, (ts \ {task}) \cup {new},
                                  saved.crontabs, saved.nextId)

\* Mutant: the task is renamed and re-tasked but not rebound.
update_task_keeps_crontab(ts, cs, nextCid, scheduled_task, periodic_task_id) ==
    LET task == QueryGet(ts, periodic_task_id)
    IN  IF task = None
        THEN Outcome("AttributeError", None, ts, cs, nextCid)
        ELSE LET new == [task EXCEPT !.name = scheduled_task.name,
                                     !.task = scheduled_task.task]
             IN  Outcome("ok", new, (ts \ {task}) \cup {new}, cs, nextCid)

\* Mutant: the schedule the task leaves is removed when nothing uses it.
update_task_with_cleanup(ts, cs, nextCid, scheduled_task, periodic_task_id) ==
    LET task == QueryGet(ts, periodic_task_id)
        r == get_crontab_schedule(cs, scheduled_task.schedule)
    IN  IF r.err # "ok" \/ task = None
        THEN Outcome("AttributeError", None, ts, cs, nextCid)
        ELSE LET saved == SaveCrontab(cs, nextCid, r.crontab)
                 new == [task EXCEPT !.crontab = saved.crontab.id,
                                     !.name = scheduled_task.name,
                                     !.task = scheduled_task.task]
                 after == (ts \ {task}) \cup {new}
                 unused == {c \in cs : c.id = task.crontab
                                       /\ \A t \in after : t.crontab # c.id}
             IN  Outcome("ok", new, after, saved.crontabs \ unused, saved.nextId)

\* Mutant: a missing task is created instead of reported.
update_task_upsert(ts, cs, nextCid, scheduled_task, periodic_task_id) ==
    LET task == QueryGet(ts, periodic_task_id)
        r == get_crontab_schedule(cs, scheduled_task.schedule)
        saved == SaveCrontab(cs, nextCid, r.crontab)
        old == IF task = None THEN {} ELSE {task}
        new == [id |-> periodic_task_id, crontab |-> saved.crontab.id,
                name |-> scheduled_task.name, task |-> scheduled_task.task,
                kwargs |-> IF task = None THEN "{}" ELSE task.kwargs,
                enabled |-> IF task = None THEN TRUE ELSE task.enabled]
    IN  Outcome("ok", new, (ts \ old) \cup {new}, saved.crontabs, saved.nextId)

update_task(ts, cs, nextCid, scheduled_task, periodic_task_id) ==
    LET task == QueryGet(ts, periodic_task_id)
        r == get_crontab_schedule(cs, scheduled_task.schedule)
    IN  IF r.err # "ok"
        THEN Outcome(ExceptNoResultFound(r.err), None, ts, cs, nextCid)
        ELSE IF task = None
        THEN \* task.crontab = ... on None; the new crontab was never added
             Outcome(ExceptNoResultFound("AttributeError"), None, ts, cs, nextCid)
        ELSE LET saved == SaveCrontab(cs, nextCid, r.crontab)
                 new == [task EXCEPT !.crontab = saved.crontab.id,
                                     !.name = scheduled_task.name,
                                     !.task = scheduled_task.task]
             IN  Outcome("ok", new, (ts \ {task}) \cup {new}, saved.crontabs,
                         saved.nextId)

\* Mutant: every schedule is reported unused.
crontab_is_used_never(ts, crontab_schedule) == FALSE

\* filter_by(crontab=crontab_schedule): the tasks whose foreign key names the
\* row (none for None: the foreign key is never NULL).
crontab_is_used(ts, crontab_schedule) ==
    LET schedules == IF crontab_schedule = None THEN {}
                     ELSE {t \in ts : t.crontab = crontab_schedule.id}
    IN  IF schedules # {} THEN TRUE ELSE FALSE

\* task.crontab: the row the task's foreign key names, None without one.
CrontabOf(cs, task) ==
    LET rows == {c \in cs : c.id = task.crontab}
    IN  IF rows = {} THEN None ELSE CHOOSE c \in rows : TRUE

\* Mutant: the orphan check runs before the removal is flushed.
delete_task_no_flush(ts, cs, nextCid, periodic_task_id) ==
    LET task == QueryGet(ts, periodic_task_id)
    IN  IF task = None
        THEN Outcome("UnmappedInstanceError", None, ts, cs, nextCid)
        ELSE LET crontab == CrontabOf(cs, task)
             IN  IF ~crontab_is_used(ts, crontab)
                 THEN Outcome("ok", task, ts \ {task}, cs \ {crontab}, nextCid)
                 ELSE Outcome("ok", task, ts \ {task}, cs, nextCid)

\* Mutant: the task is removed and its schedule is never looked at.
delete_task_no_cleanup(ts, cs, nextCid, periodic_task_id) ==
    LET task == QueryGet(ts, periodic_task_id)
    IN  IF task = None
        THEN Outcome("UnmappedInstanceError", None, ts, cs, nextCid)
        ELSE Outcome("ok", task, ts \ {task}, cs, nextCid)

delete_task(ts, cs, nextCid, periodic_task_id) ==
    LET task == QueryGet(ts, periodic_task_id)
    IN  IF task = None
        THEN \* session.delete(None)
             Outcome(ExceptNoResultFound("UnmappedInstanceError"), None, ts, cs,
                     nextCid)
        ELSE LET flushed == ts \ {task}   \* session.delete(task); session.flush()
                 crontab == CrontabOf(cs, task)
             IN  IF ~crontab_is_used(flushed, crontab)
                 THEN Outcome("ok", task, flushed, cs \ {crontab}, nextCid)
                 ELSE Outcome("ok", task, flushed, cs, nextCid)

----------------------------------------------------------------------------
\* The state machine: one action per controller call

\* The record of a call: the operation, whether a task with the identifier
\* it was given existed when it was called, and the error it raised.
Call(op, found, out) == [op |-> op, found |-> found, err |-> out.err]

Ids(ts) == {t.id : t \in ts}

\* The version tool before main runs.
ToolOff == [pc |-> "off"]

\* The callers of the concurrent scenario, each with a session of its own.
Callers == {1, 2}

\* What the concurrent callers ask for: one task, under either schedule.
ConcTasks == {ScheduledTask("A", "jobs.ping", s) : s \in Schedules}

\* A unit of work with nothing in it.
IdleSession ==
    [pc |-> "idle", op |-> "none", calls |-> 0, err |-> "ok",
     puts |-> {}, olds |-> {}, delTasks |-> {}, addCrontabs |-> {},
     delCrontabs |-> {}]

Init ==
    /\ tasks = {}
    /\ crontabs = {}
    /\ nextTaskId = 1
    /\ nextCrontabId = 1
    /\ lastOp = [op |-> "none", found |-> FALSE, err |-> "ok"]
    /\ intent = <<>>
    /\ created = {}
    /\ deleted = {}
    /\ sessions = [c \in Callers |-> IdleSession]
    /\ fk = FALSE
    /\ tool = ToolOff

\* The store after a call. The store hands out at most MaxCrontabs keys.
Store(out) ==
    /\ out.nextCrontabId <= MaxCrontabs + 1
    /\ tasks' = out.tasks
    /\ crontabs' = out.crontabs
    /\ nextCrontabId' = out.nextCrontabId

\* get_crontab_schedule called on its own. The rows of the session after the
\* call are the table and any persistent object the call returned.
GetCrontabSchedule(schedule) ==
    LET r == get_crontab_schedule(crontabs, schedule)
        persistent == IF r.crontab # None /\ r.crontab.id # 0
                      THEN {r.crontab} ELSE {}
    IN  /\ crontabs' = crontabs \cup persistent
        /\ lastOp' = [op |-> "get_crontab_schedule", found |-> FALSE,
                      err |-> r.err]
        /\ UNCHANGED <<tasks, nextTaskId, nextCrontabId, intent, created,
                       deleted>>

ScheduleTask(st, kw, en) ==
    LET out == schedule_task(tasks, crontabs, nextTaskId, nextCrontabId,
                             st, kw, en)
    IN  /\ nextTaskId <= MaxTasks
        /\ Store(out)
        /\ nextTaskId' = IF out.err = "ok" THEN nextTaskId + 1 ELSE nextTaskId
        /\ lastOp' = Call("schedule_task", FALSE, out)
        /\ intent' = IF out.err = "ok"
                     THEN (nextTaskId :> st.schedule) @@ intent ELSE intent
        /\ created' = IF out.err = "ok"
                      THEN created \cup {nextTaskId} ELSE created
        /\ UNCHANGED deleted

UpdateTaskEnabledStatus(id, en) ==
    LET out == update_task_enabled_status(tasks, crontabs, nextCrontabId, en, id)
    IN  /\ Store(out)
        /\ lastOp' = Call("update_task_enabled_status", id \in Ids(tasks), out)
        /\ UNCHANGED <<nextTaskId, intent, created, deleted>>

UpdateTask(id, st) ==
    LET out == update_task(tasks, crontabs, nextCrontabId, st, id)
    IN  /\ Store(out)
        /\ lastOp' = Call("update_task", id \in Ids(tasks), out)
        /\ intent' = IF out.err = "ok"
                     THEN [intent EXCEPT ![id] = st.schedule] ELSE intent
        /\ UNCHANGED <<nextTaskId, created, deleted>>

DeleteTask(id) ==
    LET out == delete_task(tasks, crontabs, nextCrontabId, id)
    IN  /\ Store(out)
        /\ lastOp' = Call("delete_task", id \in Ids(tasks), out)
        /\ deleted' = IF out.err = "ok" THEN deleted \cup {id} ELSE deleted
        /\ intent' = [t \in Ids(out.tasks) |-> intent[t]]
        /\ UNCHANGED <<nextTaskId, created>>

\* One caller, one session: the calls follow one another.
Next ==
    \/ \E s \in Schedules :
          GetCrontabSchedule(s) /\ UNCHANGED <<sessions, fk, tool>>
    \/ \E st \in ScheduledTasks, kw \in KwargsInputs, en \in BOOLEAN :
          ScheduleTask(st, kw, en) /\ UNCHANGED <<sessions, fk, tool>>
    \/ \E id \in TaskIds, en \in BOOLEAN :
          UpdateTaskEnabledStatus(id, en) /\ UNCHANGED <<sessions, fk, tool>>
    \/ \E id \in TaskIds, st \in ScheduledTasks :
          UpdateTask(id, st) /\ UNCHANGED <<sessions, fk, tool>>
    \/ \E id \in TaskIds : DeleteTask(id) /\ UNCHANGED <<sessions, fk, tool>>

Spec == Init /\ [][Next]_vars

----------------------------------------------------------------------------
\* Two callers, each in a unit of work of its own. A unit of work is one
\* controller call followed by the caller's commit. The tables hold what is
\* committed; a call reads them as they are when it runs (read committed)
\* and leaves its changes in the session: the task removal delete_task
\* flushes is a DELETE of the open transaction, everything else is flushed
\* by the commit. The store enforces no uniqueness of the schedule fields.

\* Mutant: the commit re-resolves the schedules it is about to insert and
\* drops those a committed row already has the fields of.
FlushCommit_requery(ts, cs, sess, fkOn) ==
    LET adds == {c \in sess.addCrontabs :
                    \A r \in cs : Fields(r) # Fields(c)}
        gone == Ids(sess.puts) \cup Ids(sess.delTasks)
    IN  [err |-> "ok",
         tasks |-> {t \in ts : t.id \notin gone} \cup sess.puts,
         crontabs |-> (cs \ sess.delCrontabs) \cup adds]

\* The caller's commit: the pending changes of the session are flushed and
\* made visible. An UPDATE writes the columns the call changed; a row that is
\* gone makes the flush fail; the foreign key, when enforced, rejects a task
\* without its schedule row and the removal of a referenced schedule row.
FlushCommit(ts, cs, sess, fkOn) ==
    LET current(p) == {t \in ts : t.id = p.id}
        old(p) == {o \in sess.olds : o.id = p.id}
        merged(p) ==
            IF old(p) = {} \/ current(p) = {} THEN p
            ELSE LET o == CHOOSE x \in old(p) : TRUE
                     cur == CHOOSE x \in current(p) : TRUE
                 IN  [cur EXCEPT
                        !.crontab = IF p.crontab # o.crontab
                                    THEN p.crontab ELSE cur.crontab,
                        !.name = IF p.name # o.name THEN p.name ELSE cur.name,
                        !.task = IF p.task # o.task THEN p.task ELSE cur.task]
        puts == {merged(p) : p \in sess.puts}
        gone == Ids(sess.puts) \cup Ids(sess.delTasks)
        ts2 == {t \in ts : t.id \notin gone} \cup puts
        cs2 == (cs \ sess.delCrontabs) \cup sess.addCrontabs
        stale == \/ Ids(sess.olds) \cup Ids(sess.delTasks) # Ids(ts) \cap gone
                 \/ ~(sess.delCrontabs \subseteq cs)
        broken == \/ \E p \in puts : \A c \in cs2 : c.id # p.crontab
                  \/ \E c \in sess.delCrontabs, t \in ts2 : t.crontab = c.id
    IN  IF stale THEN [err |-> "StaleDataError", tasks |-> ts, crontabs |-> cs]
        ELSE IF fkOn /\ broken
        THEN [err |-> "IntegrityError", tasks |-> ts, crontabs |-> cs]
        ELSE [err |-> "ok", tasks |-> ts2, crontabs |-> cs2]

\* The session after a call: a failed call is rolled back, a successful one
\* leaves its changes pending.
AfterCall(sess, op, out) ==
    IF out.err # "ok"
    THEN [IdleSession EXCEPT !.op = op, !.calls = sess.calls + 1,
                             !.err = out.err]
    ELSE [pc |-> "pending", op |-> op, calls |-> sess.calls + 1, err |-> "ok",
          puts |-> out.tasks \ tasks,
          olds |-> {t \in tasks \ out.tasks : t.id \in Ids(out.tasks)},
          delTasks |-> {t \in tasks \ out.tasks : t.id \notin Ids(out.tasks)},
          addCrontabs |-> out.crontabs \ crontabs,
          delCrontabs |-> crontabs \ out.crontabs]

\* The rows another caller's open transaction has deleted and holds locked.
LockedBy(others) == UNION {Ids(sessions[o].delTasks) : o \in others}

Begin(c, op, out) ==
    /\ sessions[c].pc = "idle"
    /\ sessions[c].calls < MaxCalls
    /\ sessions' = [sessions EXCEPT ![c] = AfterCall(sessions[c], op, out)]
    /\ nextCrontabId' = IF out.err = "ok" THEN out.nextCrontabId
                        ELSE nextCrontabId
    /\ UNCHANGED <<tasks, crontabs, lastOp, intent, created, deleted, fk,
                   tool>>

ConcScheduleTask(c, st, kw) ==
    LET out == schedule_task(tasks, crontabs, nextTaskId, nextCrontabId,
                             st, kw, TRUE)
    IN  /\ Begin(c, "schedule_task", out)
        /\ nextTaskId' = IF out.err = "ok" THEN nextTaskId + 1 ELSE nextTaskId

ConcUpdateTask(c, id, st) ==
    LET out == update_task(tasks, crontabs, nextCrontabId, st, id)
    IN  /\ Begin(c, "update_task", out)
        /\ UNCHANGED nextTaskId

ConcDeleteTask(c, id) ==
    LET out == delete_task(tasks, crontabs, nextCrontabId, id)
    IN  /\ id \notin LockedBy(Callers \ {c})
        /\ Begin(c, "delete_task", out)
        /\ UNCHANGED nextTaskId

Commit(c) ==
    LET sess == sessions[c]
        done == FlushCommit(tasks, crontabs, sess, fk)
    IN  /\ sess.pc = "pending"
        /\ Ids(sess.puts) \cap LockedBy(Callers \ {c}) = {}
        /\ tasks' = done.tasks
        /\ crontabs' = done.crontabs
        /\ sessions' = [sessions EXCEPT
                           ![c] = [IdleSession EXCEPT !.op = sess.op,
                                                      !.calls = sess.calls,
                                                      !.err = done.err]]
        /\ UNCHANGED <<nextTaskId, nextCrontabId, lastOp, intent, created,
                       deleted, fk, tool>>

InitConc ==
    /\ tasks = {}
    /\ crontabs = {}
    /\ nextTaskId = 1
    /\ nextCrontabId = 1
    /\ lastOp = [op |-> "none", found |-> FALSE, err |-> "ok"]
    /\ intent = <<>>
    /\ created = {}
    /\ deleted = {}
    /\ sessions = [c \in Callers |-> IdleSession]
    /\ fk \in BOOLEAN
    /\ tool = ToolOff

NextConc ==
    \/ \E c \in Callers, st \in ConcTasks, kw \in KwargsInputs :
          ConcScheduleTask(c, st, kw)
    \/ \E c \in Callers, id \in TaskIds, st \in ConcTasks :
          ConcUpdateTask(c, id, st)
    \/ \E c \in Callers, id \in TaskIds : ConcDeleteTask(c, id)
    \/ \E c \in Callers : Commit(c)

SpecConc == InitConc /\ [][NextConc]_vars

----------------------------------------------------------------------------
\* The version tool (src/tools/autoversion.py): main validates the sections
\* of the configuration, runs autoversion on each and reports the bumps.

Versions == {"1.0.0", "1.1.0"}
Prefix == "v"

\* What convco prints, or its failure (a non-zero exit status).
ConvcoFailed == "convco failed"
ConvcoOutputs == Versions \cup {ConvcoFailed}

\* The content of a version file: the text and the newline that may end it.
FileText(text, nl) == [text |-> text, nl |-> nl]
strip(content) == content.text
Truncated == FileText("", FALSE)

\* A section of [tool.autoversion]: the keys it has and its watch_paths.
ListOf(items) == [type |-> "list", items |-> items]
Section(fields, watch_paths) == [fields |-> fields, watch_paths |-> watch_paths]
required_fields == <<"version_file", "version_prefix", "watch_paths">>
Required == {required_fields[n] : n \in 1 .. Len(required_fields)}

SectionConfs ==
    {Section(Required \cup yaml, ListOf(<<"str">>)) :
        yaml \in {{}, {"yaml_path"}, {"yaml_path", "yaml_key"}}}
    \cup {Section(Required \ {f}, IF f = "watch_paths" THEN None
                                   ELSE ListOf(<<"str">>)) : f \in Required}
    \cup {Section(Required, wp) :
            wp \in {[type |-> "str", items |-> <<>>], ListOf(<<"str", "int">>)}}

\* The tracked files of a section as HEAD has them.
HeadFiles ==
    {[version |-> FileText("1.0.0", nl), yaml |-> y] :
        nl \in BOOLEAN, y \in Versions}

VersionedAsset(name, old_version, new_version) ==
    [name |-> name, old_version |-> old_version, new_version |-> new_version]

SectionName(k) == "section" \o ToString(k)

\* git commit -am: HEAD takes the working tree.
GitCommit(repo) ==
    [repo EXCEPT !.head = repo.work, !.commits = repo.commits + 1]

\* git tag -f -a: the tag is put on the last commit, moved if it exists.
GitTag(repo, tag) ==
    [repo EXCEPT !.tags = {t \in repo.tags : t.tag # tag}
                          \cup {[tag |-> tag, commit |-> repo.commits]}]

\* git diff --quiet HEAD returns 0 when the working tree is as HEAD has it.
GitDiffQuiet(repo) == IF repo.work = repo.head THEN 0 ELSE 1

autoversion(repo, k, conf, out) ==
    LET current_version == strip(repo.work[k].version)
        \* open("w") truncates the file, convco's output goes into it
        opened == [repo EXCEPT !.work[k].version = Truncated,
                               !.writes = repo.writes + 1]
        written == [opened EXCEPT !.work[k].version = FileText(out, TRUE)]
        version_value == strip(written.work[k].version)
        asset == VersionedAsset(SectionName(k), current_version, version_value)
        released == GitTag(GitCommit(written), Prefix \o version_value)
        \* _update_yaml_key
        updated == [released EXCEPT !.work[k].yaml = version_value]
    IN  IF out = ConvcoFailed
        THEN [raised |-> TRUE, ret |-> None, repo |-> opened]
        ELSE IF GitDiffQuiet(written) = 0
        THEN [raised |-> FALSE, ret |-> None, repo |-> written]
        ELSE IF ~({"yaml_path", "yaml_key"} \subseteq conf.fields)
        THEN [raised |-> FALSE, ret |-> asset, repo |-> released]
        ELSE IF GitDiffQuiet(updated) = 0
        THEN [raised |-> FALSE, ret |-> None, repo |-> updated]
        ELSE [raised |-> FALSE, ret |-> asset, repo |-> GitCommit(updated)]

\* Mutant: the type of watch_paths is not looked at.
validate_config_fields_only(conf) == Required \subseteq conf.fields

\* _validate_config
validate_config(conf) ==
    IF \E n \in 1 .. Len(required_fields) : required_fields[n] \notin conf.fields
    THEN FALSE
    ELSE IF \/ conf.watch_paths.type # "list"
            \/ \E n \in 1 .. Len(conf.watch_paths.items) :
                  conf.watch_paths.items[n] # "str"
    THEN FALSE
    ELSE TRUE

\* main, as it starts: the configuration is loaded, the checkout is clean.
Start(config, files) ==
    [pc |-> "validate", config |-> config, i |-> 1,
     repo |-> [work |-> files, head |-> files, commits |-> 0, tags |-> {},
               writes |-> 0],
     bumps |-> <<>>, notified |-> 0, status |-> None,
     last |-> [ret |-> None, commits |-> 0, tagged |-> FALSE]]

\* for section_key, section_value in ...: if not _validate_config: sys.exit(1)
Validate ==
    /\ tool.pc = "validate"
    /\ tool.i <= Len(tool.config)
    /\ tool' = IF validate_config(tool.config[tool.i])
               THEN [tool EXCEPT !.i = tool.i + 1]
               ELSE [tool EXCEPT !.pc = "exit", !.status = 1]

\* The first loop is over: bumps = [] and the second loop starts.
StartBumps ==
    /\ tool.pc = "validate"
    /\ tool.i > Len(tool.config)
    /\ tool' = [tool EXCEPT !.pc = "bump", !.i = 1]

\* One round of the second loop: autoversion on the section; what it
\* returns is appended to bumps unless it is None. A failed subprocess
\* raises through main.
Bump(out) ==
    /\ tool.pc = "bump"
    /\ tool.i <= Len(tool.config)
    /\ LET r == autoversion(tool.repo, tool.i, tool.config[tool.i], out)
           last == [ret |-> r.ret,
                    commits |-> r.repo.commits - tool.repo.commits,
                    tagged |-> r.repo.tags # tool.repo.tags]
       IN  tool' = IF r.raised
                   THEN [tool EXCEPT !.pc = "raised", !.status = 1,
                                     !.repo = r.repo, !.last = last]
                   ELSE [tool EXCEPT !.i = tool.i + 1, !.repo = r.repo,
                                     !.last = last,
                                     !.bumps = IF r.ret = None THEN tool.bumps
                                               ELSE Append(tool.bumps, r.ret)]

\* After the second loop: return when there are no bumps, else _notify.
Report ==
    /\ tool.pc = "bump"
    /\ tool.i > Len(tool.config)
    /\ tool' = IF Len(tool.bumps) = 0
               THEN [tool EXCEPT !.pc = "done", !.status = 0]
               ELSE [tool EXCEPT !.pc = "done", !.status = 0,
                                 !.notified = tool.notified + 1]

Configs == UNION {[1 .. n -> SectionConfs] : n \in 0 .. MaxSections}

InitAuto ==
    /\ tasks = {}
    /\ crontabs = {}
    /\ nextTaskId = 1
    /\ nextCrontabId = 1
    /\ lastOp = [op |-> "none", found |-> FALSE, err |-> "ok"]
    /\ intent = <<>>
    /\ created = {}
    /\ deleted = {}
    /\ sessions = [c \in Callers |-> IdleSession]
    /\ fk = FALSE
    /\ \E config \in Configs :
          \E files \in [1 .. Len(config) -> HeadFiles] :
             tool = Start(config, files)

StoreVars == <<tasks, crontabs, nextTaskId, nextCrontabId, lastOp, intent,
               created, deleted, sessions, fk>>

NextAuto ==
    \/ Validate /\ UNCHANGED StoreVars
    \/ StartBumps /\ UNCHANGED StoreVars
    \/ \E out \in ConvcoOutputs : Bump(out) /\ UNCHANGED StoreVars
    \/ Report /\ UNCHANGED StoreVars

SpecAuto == InitAuto /\ [][NextAuto]_vars

----------------------------------------------------------------------------
\* Properties

CrontabIds(cs) == {c.id : c \in cs}

\* The schedule rows no task references.
Orphans(ts, cs) == {c \in cs : \A t \in ts : t.crontab # c.id}

\* The field tuples of the rows a task's foreign key names.
BoundFields(cs, t) == {Fields(c) : c \in {r \in cs : r.id = t.crontab}}

\* The steps of each call. (Each action sets lastOp'.op to its own name; the
\* formulas below state that first where it spares evaluating the call.)
AnyUpdateTaskEnabledStatus ==
    \E id \in TaskIds, en \in BOOLEAN : UpdateTaskEnabledStatus(id, en)
AnyUpdateTask == \E id \in TaskIds, st \in ScheduledTasks : UpdateTask(id, st)
AnyDeleteTask == \E id \in TaskIds : DeleteTask(id)

\* C1: update_task_enabled_status, update_task and delete_task called with an
\* identifier no task has fail with PeriodicTaskNotFound and no other error.
C1_MissingTaskRaisesTaskNotFound ==
    (/\ lastOp.op \in {"update_task_enabled_status", "update_task", "delete_task"}
     /\ ~lastOp.found)
    => lastOp.err = "PeriodicTaskNotFound"

\* C2: delete_task on an existing task removes exactly that task; its
\* schedule row is removed when no other task references it, and otherwise
\* stays in the store and is still reported used.
C2_DeleteRemovesScheduleIffUnused ==
    [][\A id \in TaskIds :
         (lastOp'.op = "delete_task" /\ id \in Ids(tasks) /\ DeleteTask(id)) =>
            LET task == CHOOSE t \in tasks : t.id = id
                row == {c \in crontabs : c.id = task.crontab}
                shared == \E t \in tasks : t.id # id /\ t.crontab = task.crontab
            IN  /\ tasks' = tasks \ {task}
                /\ shared => /\ crontabs' = crontabs
                             /\ \A c \in row : c \in crontabs'
                                               /\ crontab_is_used(tasks', c)
                /\ ~shared => crontabs' = crontabs \ row]_vars

\* C2 witness: one of two tasks sharing the only schedule row ever created
\* has been deleted, and the row is still there.
C2_Witness ==
    /\ lastOp = [op |-> "delete_task", found |-> TRUE, err |-> "ok"]
    /\ Cardinality(created) = 2
    /\ Cardinality(tasks) = 1
    /\ nextCrontabId = 2
    /\ Cardinality(crontabs) = 1

\* C3: at most one schedule row exists per field tuple, and tasks scheduled
\* with the same field tuple are bound to the same row.
C3_OneRowPerFieldTuple ==
    /\ \A c1, c2 \in crontabs : Fields(c1) = Fields(c2) => c1 = c2
    /\ \A t1, t2 \in tasks :
          intent[t1.id] = intent[t2.id] => t1.crontab = t2.crontab

\* C3 witness: two tasks scheduled with the same field tuple share a row.
C3_Witness ==
    \E t1, t2 \in tasks :
        /\ t1.id # t2.id
        /\ intent[t1.id] = intent[t2.id]
        /\ t1.crontab = t2.crontab
        /\ Cardinality(crontabs) = 1

\* C4: every task in the store references exactly one schedule row, and that
\* row is in the store.
C4_ReferentialIntegrity ==
    \A t \in tasks : Cardinality({c \in crontabs : c.id = t.crontab}) = 1

\* C4 witness: a task has been deleted and another task is still bound to a
\* row of the store.
C4_Witness ==
    /\ lastOp = [op |-> "delete_task", found |-> TRUE, err |-> "ok"]
    /\ \E t \in tasks : t.crontab \in CrontabIds(crontabs)

\* C5: the six fields of the schedule a task references equal the Schedule of
\* the last successful schedule_task or update_task for that task.
C5_ScheduleMatchesIntent ==
    \A t \in tasks : BoundFields(crontabs, t) = {intent[t.id]}

\* C5 witness: a task was rescheduled while another task kept its schedule.
C5_Witness ==
    /\ lastOp = [op |-> "update_task", found |-> TRUE, err |-> "ok"]
    /\ \E t1, t2 \in tasks : intent[t1.id] # intent[t2.id]

\* C6 as stated: no schedule row in the store is referenced by zero tasks.
C6_NoOrphanRows == Orphans(tasks, crontabs) = {}

\* C6 amended: a schedule row is created only bound to a task that needs its
\* field tuple, and only update_task leaves a row referenced by zero tasks:
\* every other call leaves no row unreferenced that was not so before.
C6_OrphansOnlyFromUpdate ==
    /\ [][\A c \in crontabs' \ crontabs :
            \E t \in tasks' : t.crontab = c.id /\ intent'[t.id] = Fields(c)]_vars
    /\ [][Orphans(tasks', crontabs') \subseteq Orphans(tasks, crontabs)
          \/ AnyUpdateTask]_vars

\* C6 witness: an update_task has left a row that no task references.
C6_Witness ==
    /\ lastOp = [op |-> "update_task", found |-> TRUE, err |-> "ok"]
    /\ Orphans(tasks, crontabs) # {}

\* C7: update_task with a field tuple no row has creates a row and rebinds
\* the task to it; update_task removes no schedule row; only delete_task
\* removes one.
C7_UpdateNeverRemovesSchedule ==
    /\ [][\A id \in TaskIds, st \in ScheduledTasks :
            (/\ lastOp'.op = "update_task"
             /\ id \in Ids(tasks)
             /\ \A c \in crontabs : Fields(c) # st.schedule
             /\ UpdateTask(id, st))
            => \E c \in crontabs' \ crontabs :
                  /\ Fields(c) = st.schedule
                  /\ crontabs' = crontabs \cup {c}
                  /\ \E t \in tasks' : t.id = id /\ t.crontab = c.id]_vars
    /\ [][crontabs \subseteq crontabs' \/ ~AnyUpdateTask]_vars
    /\ [][crontabs \subseteq crontabs' \/ AnyDeleteTask]_vars

\* C7 witness: after an update_task the only task is bound to a new row and
\* the row it left is still in the store.
C7_Witness ==
    /\ lastOp = [op |-> "update_task", found |-> TRUE, err |-> "ok"]
    /\ Cardinality(tasks) = 1
    /\ Cardinality(crontabs) = 2

\* C8: schedules that differ in at least one field resolve to distinct rows,
\* and tasks scheduled with them never share a row.
C8_DistinctTuplesDistinctRows ==
    /\ \A s1, s2 \in Schedules :
          s1 # s2 => get_crontab_schedule(crontabs, s1).crontab
                        # get_crontab_schedule(crontabs, s2).crontab
    /\ \A t1, t2 \in tasks :
          intent[t1.id] # intent[t2.id] => t1.crontab # t2.crontab

\* C8 witness: two tasks scheduled with tuples that differ only in the
\* timezone are bound to two rows.
C8_Witness ==
    \E t1, t2 \in tasks :
        /\ intent[t1.id].timezone # intent[t2.id].timezone
        /\ [intent[t1.id] EXCEPT !.timezone = "UTC"]
              = [intent[t2.id] EXCEPT !.timezone = "UTC"]
        /\ t1.crontab # t2.crontab

\* C9: update_task_enabled_status on an existing task sets that task's
\* enabled flag to the given value and changes nothing else in the store.
C9_ToggleSetsOnlyEnabled ==
    [][\A id \in TaskIds, en \in BOOLEAN :
         (/\ lastOp'.op = "update_task_enabled_status"
          /\ id \in Ids(tasks)
          /\ UpdateTaskEnabledStatus(id, en)) =>
            LET task == CHOOSE t \in tasks : t.id = id
            IN  /\ tasks' = (tasks \ {task}) \cup {[task EXCEPT !.enabled = en]}
                /\ crontabs' = crontabs]_vars

\* C9 witness: an existing, enabled task has just been toggled.
C9_Witness ==
    /\ lastOp = [op |-> "update_task_enabled_status", found |-> TRUE,
                 err |-> "ok"]
    /\ \E t \in tasks : t.enabled

\* C10: a task identifier is in the store exactly when schedule_task
\* produced it and no successful delete_task has taken it; update_task and
\* update_task_enabled_status add and remove no task; a deleted task never
\* comes back.
C10_PresentIffCreatedNotDeleted ==
    /\ [](Ids(tasks) = created \ deleted)
    /\ [][Ids(tasks') = Ids(tasks)
          \/ ~(AnyUpdateTask \/ AnyUpdateTaskEnabledStatus)]_vars
    /\ [][\A id \in deleted : id \notin Ids(tasks')]_vars

\* C10 witness: after a delete, schedule_task has added a task and the
\* deleted one is still absent.
C10_Witness ==
    /\ lastOp.op = "schedule_task"
    /\ deleted # {}
    /\ tasks # {}
    /\ deleted \cap Ids(tasks) = {}

\* C11: get_crontab_schedule on its own leaves both tables as they were;
\* without a matching row it returns a new schedule with no primary key that
\* is not in the store; a row enters the store only together with a task row
\* bound to it.
C11_ResolveHasNoStoreEffect ==
    /\ [](\A s \in Schedules :
            LET r == get_crontab_schedule(crontabs, s)
            IN  (\A c \in crontabs : Fields(c) # s)
                => /\ r.err = "ok"
                   /\ r.crontab # None
                   /\ r.crontab \notin crontabs
                   /\ r.crontab = CrontabSchedule(s))
    /\ [][lastOp'.op = "get_crontab_schedule"
          => tasks' = tasks /\ crontabs' = crontabs]_vars
    /\ [][\A c \in crontabs' \ crontabs :
            \E t \in tasks' \ tasks : t.crontab = c.id]_vars

\* C11 witness: the store had tasks, is empty again, and a schedule has just
\* been resolved without a match.
C11_Witness ==
    /\ lastOp.op = "get_crontab_schedule"
    /\ lastOp.err = "ok"
    /\ created # {}
    /\ tasks = {}
    /\ crontabs = {}

\* C12: update_task on an existing task sets its name, task reference and
\* schedule binding and keeps its kwargs, enabled flag and identifier; every
\* other task row is unchanged.
C12_UpdateKeepsKwargsAndEnabled ==
    [][\A id \in TaskIds, st \in ScheduledTasks :
         (/\ lastOp'.op = "update_task"
          /\ id \in Ids(tasks)
          /\ UpdateTask(id, st)) =>
            \E old \in tasks, new \in tasks' :
                /\ old.id = id
                /\ new.id = id
                /\ new.kwargs = old.kwargs
                /\ new.enabled = old.enabled
                /\ new.name = st.name
                /\ new.task = st.task
                /\ BoundFields(crontabs', new) = {st.schedule}
                /\ tasks' \ {new} = tasks \ {old}]_vars

\* C12 witness: one of two tasks has been renamed and the other keeps its
\* name.
C12_Witness ==
    /\ lastOp = [op |-> "update_task", found |-> TRUE, err |-> "ok"]
    /\ \E t1, t2 \in tasks : t1.name # t2.name /\ ~t1.enabled /\ t2.enabled

\* C14: the orphan check of delete_task runs on the task table without the
\* task being deleted: the schedule stays exactly when a task other than the
\* deleted one references it.
C14_OrphanCheckAfterFlush ==
    [][\A id \in TaskIds :
         (lastOp'.op = "delete_task" /\ id \in Ids(tasks) /\ DeleteTask(id)) =>
            \A t \in tasks, c \in crontabs :
                (t.id = id /\ c.id = t.crontab)
                => /\ t \notin tasks'
                   /\ (c \in crontabs') = crontab_is_used(tasks \ {t}, c)
                   /\ (c \in crontabs') = crontab_is_used(tasks', c)]_vars

\* C14 witness: the only task ever created has been deleted and its schedule
\* went with it.
C14_Witness ==
    /\ lastOp = [op |-> "delete_task", found |-> TRUE, err |-> "ok"]
    /\ Cardinality(created) = 1
    /\ tasks = {}
    /\ crontabs = {}

\* C15: update_task, update_task_enabled_status and delete_task called with
\* an identifier no task has fail and leave both tables as they were.
C15_FailedCallLeavesStoreUnchanged ==
    [][(/\ lastOp'.op \in {"update_task_enabled_status", "update_task",
                           "delete_task"}
        /\ ~lastOp'.found)
       => /\ lastOp'.err # "ok"
          /\ tasks' = tasks
          /\ crontabs' = crontabs]_vars

\* C15 witness: update_task has failed for a missing task while a field tuple
\* had no row.
C15_Witness ==
    /\ lastOp.op = "update_task"
    /\ ~lastOp.found
    /\ lastOp.err # "ok"
    /\ tasks # {}
    /\ \E s \in Schedules : \A c \in crontabs : Fields(c) # s

\* The committed rows holding the field tuple of row r.
SameFields(cs, r) == {c \in cs : Fields(c) = Fields(r)}

\* C13: two callers, each in a unit of work of its own, that call
\* schedule_task with the same schedule can both find no row and both create
\* one. A call creates a row exactly when it sees no committed row with the
\* fields, the task it adds is bound to that row, and the commit of the
\* second caller puts its row next to the equal row of the first: the store
\* rejects nothing, and the table then holds two rows with identical fields.
C13_RacingCallersBothCreate ==
    [][\A c \in Callers :
         /\ (sessions[c].pc = "idle" /\ sessions'[c].pc = "pending"
                /\ sessions'[c].op = "schedule_task")
            => \A p \in sessions'[c].puts :
                 \/ /\ sessions'[c].addCrontabs = {}
                    /\ \E r \in crontabs : r.id = p.crontab
                 \/ \E r \in sessions'[c].addCrontabs :
                       /\ sessions'[c].addCrontabs = {r}
                       /\ r.id = p.crontab
                       /\ r.id \notin CrontabIds(crontabs)
                       /\ SameFields(crontabs, r) = {}
         /\ (sessions[c].pc = "pending" /\ sessions'[c].pc = "idle"
                /\ sessions[c].op = "schedule_task"
                /\ sessions[c].addCrontabs # {})
            => /\ sessions'[c].err = "ok"
               /\ sessions[c].puts \subseteq tasks'
               /\ sessions[c].addCrontabs \subseteq crontabs'
               /\ crontabs \subseteq crontabs'
               /\ \A r \in sessions[c].addCrontabs :
                     SameFields(crontabs', r) = SameFields(crontabs, r) \cup {r}
      ]_vars

\* Both callers created a row for the same schedule and both committed.
C13_Witness ==
    /\ \A c \in Callers :
          /\ sessions[c].op = "schedule_task"
          /\ sessions[c].pc = "idle"
          /\ sessions[c].calls = 1
          /\ sessions[c].err = "ok"
    /\ \E r1 \in crontabs, r2 \in crontabs :
          /\ r1.id # r2.id
          /\ Fields(r1) = Fields(r2)
          /\ \E t1 \in tasks, t2 \in tasks :
                t1.id # t2.id /\ t1.crontab = r1.id /\ t2.crontab = r2.id

\* C16: one caller deletes the last task referencing a schedule row while
\* another caller schedules or updates a task with the fields of that row.
\* When both have committed, every committed task references a schedule row
\* present in the store: the orphan cleanup never removes a row a
\* concurrently created task is bound to.
C16_CleanupKeepsBoundRows ==
    (/\ \A c \in Callers : sessions[c].pc = "idle" /\ sessions[c].err = "ok"
     /\ \E c \in Callers, d \in Callers :
           /\ sessions[c].op = "delete_task"
           /\ sessions[d].op \in {"schedule_task", "update_task"})
    => \A t \in tasks : t.crontab \in CrontabIds(crontabs)

\* The schedules that two or more committed rows hold the fields of.
Duplicated(cs) ==
    {s \in Schedules : Cardinality({c \in cs : CrontabFilter(c, s)}) >= 2}

\* C17: while two or more rows hold the same fields S, get_crontab_schedule
\* for S returns neither row and fails with the store's MultipleResultsFound
\* (not PeriodicTaskNotFound); schedule_task and update_task with S fail the
\* same way, adding no task and no schedule row and rebinding no task; the
\* caller whose call failed so has nothing pending.
C17_DuplicateRowsFailTheLookup ==
    /\ \A s \in Duplicated(crontabs) :
          /\ get_crontab_schedule(crontabs, s)
               = [err |-> "MultipleResultsFound", crontab |-> None]
          /\ \A nt \in NameTasks, kw \in KwargsInputs :
                LET st == ScheduledTask(nt[1], nt[2], s)
                    out == schedule_task(tasks, crontabs, nextTaskId,
                                         nextCrontabId, st, kw, TRUE)
                IN  /\ out.err = "MultipleResultsFound"
                    /\ out.tasks = tasks
                    /\ out.crontabs = crontabs
          /\ \A nt \in NameTasks, id \in TaskIds :
                LET st == ScheduledTask(nt[1], nt[2], s)
                    out == update_task(tasks, crontabs, nextCrontabId, st, id)
                IN  /\ out.err = "MultipleResultsFound"
                    /\ out.tasks = tasks
                    /\ out.crontabs = crontabs
    /\ \A c \in Callers :
          sessions[c].err = "MultipleResultsFound"
          => /\ sessions[c].pc = "idle"
             /\ sessions[c].op \in {"schedule_task", "update_task"}
             /\ sessions[c].puts = {}
             /\ sessions[c].addCrontabs = {}

\* Two rows hold the same fields, and a caller's update_task of an existing
\* task to that schedule has failed on them.
C17_Witness ==
    /\ Duplicated(crontabs) # {}
    /\ tasks # {}
    /\ \E c \in Callers :
          /\ sessions[c].op = "update_task"
          /\ sessions[c].err = "MultipleResultsFound"

\* C18: autoversion creates the release commit and the tag only if the bump
\* changed the working tree, returns the new version whenever it created the
\* release commit and tag, and returns None only when it committed and
\* tagged nothing.
C18_ReleaseIsReturned ==
    (tool.pc \in {"bump", "done", "raised"} /\ tool.repo.writes > 0)
    => /\ tool.last.ret = None => (tool.last.commits = 0 /\ ~tool.last.tagged)
       /\ tool.last.ret # None => (tool.last.commits > 0 /\ tool.last.tagged)

\* A section main must refuse: a required key is missing, or watch_paths is
\* not a list of strings.
Refused(conf) ==
    \/ "version_file" \notin conf.fields
    \/ "version_prefix" \notin conf.fields
    \/ "watch_paths" \notin conf.fields
    \/ conf.watch_paths.type # "list"
    \/ \E n \in DOMAIN conf.watch_paths.items : conf.watch_paths.items[n] # "str"

\* C19: main validates every section before it bumps any. With a refused
\* section it exits with status 1 and has written no version file, made no
\* commit and no tag and sent no notification; it sends one notification at
\* most, and sends it exactly when a section returned a bump.
C19_ValidatedBeforeAnyBump ==
    /\ tool.pc \in {"validate", "exit"}
       => /\ tool.repo.writes = 0
          /\ tool.repo.commits = 0
          /\ tool.repo.tags = {}
          /\ tool.repo.work = tool.repo.head
          /\ tool.bumps = <<>>
          /\ tool.notified = 0
    /\ (\E k \in DOMAIN tool.config : Refused(tool.config[k]))
       => tool.pc \in {"validate", "exit"}
    /\ tool.pc = "exit"
       => /\ tool.status = 1
          /\ \E k \in DOMAIN tool.config : Refused(tool.config[k])
    /\ tool.notified \in {0, 1}
    /\ tool.notified = 1 => (tool.pc = "done" /\ Len(tool.bumps) > 0)
    /\ tool.pc = "done" => (tool.notified = 1 <=> Len(tool.bumps) > 0)

\* main has exited with status 1 on the second section, after the first
\* passed the validation.
C19_Witness ==
    /\ tool.pc = "exit"
    /\ tool.status = 1
    /\ Len(tool.config) = 2
    /\ ~Refused(tool.config[1])
    /\ "watch_paths" \in tool.config[2].fields
    /\ Refused(tool.config[2])

============================================================================
